---------------------------- MODULE Spec2Model ----------------------------
(***************************************************************************)
(* A model of the fintech chatbot of src/chatbot.py: the input sanitizer   *)
(* and validators (SecurityValidator), the keyword intent classifier       *)
(* (IntentClassifier), the response generator (ResponseGenerator) and the  *)
(* orchestrator with its in-memory session store (FintechChatbot).         *)
(*                                                                         *)
(* Text is a sequence of one-character strings, so that substring search,  *)
(* character removal, trimming and number parsing are computed on the      *)
(* characters.  A Python value handed to a function that tests its type is *)
(* a record with a "type" field; a str carries its characters in "chars".  *)
(***************************************************************************)
EXTENDS Integers, Sequences, FiniteSets, TLC

VARIABLES
    active_sessions,  \* FintechChatbot.active_sessions: user_id -> UserSession
    next_obj,         \* identity of the next UserSession object constructed
    op,               \* the operation that ran last ("none" before any)
    arg,              \* its arguments
    ret               \* what it returned, and what it did on the way

vars == <<active_sessions, next_obj, op, arg, ret>>

-----------------------------------------------------------------------------
(* Bounds of the model *)

MaxObjects == 2       \* UserSession objects constructed in one behaviour
MaxFragments == 2     \* fragments concatenated into a classifier input
MaxAmountLen == 3     \* characters of an enumerated amount string
MaxDigitRun == 14     \* digits in the run of an account-number input

-----------------------------------------------------------------------------
(* Text helpers *)

Str(chars) == [type |-> "str", chars |-> chars]
NoneValue == [type |-> "NoneType"]
IntValue == [type |-> "int"]

isinstance_str(v) == v.type = "str"

RECURSIVE Concats(_, _)
\* every concatenation of at most n members of F
Concats(F, n) ==
    IF n = 0 THEN {<< >>}
    ELSE LET shorter == Concats(F, n - 1)
         IN  shorter \cup {a \o b : a \in shorter, b \in F}

RECURSIVE RemoveChars(_, _)
\* re.sub('[...]', '', s) and str.replace(c, ''): drop every member of bad
RemoveChars(s, bad) ==
    IF s = << >> THEN << >>
    ELSE IF Head(s) \in bad THEN RemoveChars(Tail(s), bad)
    ELSE <<Head(s)>> \o RemoveChars(Tail(s), bad)

Whitespace == {" ", "\t", "\n", "\r"}

RECURSIVE LStrip(_)
LStrip(s) ==
    IF s # << >> /\ Head(s) \in Whitespace THEN LStrip(Tail(s)) ELSE s

RECURSIVE RStrip(_)
RStrip(s) ==
    IF s # << >> /\ s[Len(s)] \in Whitespace
    THEN RStrip(SubSeq(s, 1, Len(s) - 1)) ELSE s

\* str.strip()
strip(s) == RStrip(LStrip(s))

UpperLetters ==
    <<"A","B","C","D","E","F","G","H","I","J","K","L","M",
      "N","O","P","Q","R","S","T","U","V","W","X","Y","Z">>
LowerLetters ==
    <<"a","b","c","d","e","f","g","h","i","j","k","l","m",
      "n","o","p","q","r","s","t","u","v","w","x","y","z">>

LowerChar(c) ==
    IF \E i \in 1..Len(UpperLetters) : UpperLetters[i] = c
    THEN LowerLetters[CHOOSE i \in 1..Len(UpperLetters) : UpperLetters[i] = c]
    ELSE c

RECURSIVE lower(_)
\* str.lower()
lower(s) ==
    IF s = << >> THEN << >> ELSE <<LowerChar(Head(s))>> \o lower(Tail(s))

\* Python's  k in t  on strings
Contains(t, k) ==
    \E i \in 0..(Len(t) - Len(k)) : SubSeq(t, i + 1, i + Len(k)) = k

AsciiDigits == <<"0","1","2","3","4","5","6","7","8","9">>
IsAsciiDigit(c) == \E i \in 1..10 : AsciiDigits[i] = c
DigitVal(c) == (CHOOSE i \in 1..10 : AsciiDigits[i] = c) - 1

\* Decimal digits outside ASCII (category Nd), which \d of a str pattern
\* matches as well: ARABIC-INDIC DIGIT THREE, FULLWIDTH DIGIT SEVEN.
UnicodeDigits == {"U+0663", "U+FF17"}

\* \d of a Python 3 str pattern
IsReDigit(c) == IsAsciiDigit(c) \/ c \in UnicodeDigits

\* \w of a Python 3 str pattern, on the characters the model uses
IsReWord(c) ==
    \/ IsReDigit(c)
    \/ c = "_"
    \/ \E i \in 1..26 : LowerLetters[i] = c \/ UpperLetters[i] = c

-----------------------------------------------------------------------------
(* SecurityValidator *)

Blacklist == {"<", ">", "\"", "'", ";"}

\* sanitize_input without the final strip().
sanitize_input_no_strip(user_input) ==
    IF ~ isinstance_str(user_input) THEN << >>
    ELSE RemoveChars(user_input.chars, Blacklist)

\* sanitize_input: "" for a non-str, else the text without the blacklisted
\* characters, trimmed
sanitize_input(user_input) ==
    IF ~ isinstance_str(user_input) THEN << >>
    ELSE strip(RemoveChars(user_input.chars, Blacklist))

MinAccountDigits == 10
MaxAccountDigits == 12

\* re.match('^\d{10,12}$', s): k digits from the start, 10 <= k <= 12, and then
\* either the end of the string or one newline that ends the string ($ without
\* re.MULTILINE matches at the end and before a final newline)
validate_account_number(account_number) ==
    \E k \in MinAccountDigits..MaxAccountDigits :
        /\ k <= Len(account_number)
        /\ \A i \in 1..k : IsReDigit(account_number[i])
        /\ \/ k = Len(account_number)
           \/ k = Len(account_number) - 1 /\ account_number[k + 1] = "\n"

\* A float is an exact decimal num/den, den a power of ten, in lowest such
\* terms; -0.0 and 0.0 are one value, as they are under ==.
RECURSIVE Normalise(_, _)
Normalise(num, den) ==
    IF den > 1 /\ num % 10 = 0 THEN Normalise(num \div 10, den \div 10)
    ELSE [num |-> num, den |-> den]

Float(num, den) == Normalise(num, den)
Zero == Float(0, 1)
IsPositive(x) == x.num > 0

RECURSIVE ToNat(_)
ToNat(ds) ==
    IF ds = << >> THEN 0
    ELSE ToNat(SubSeq(ds, 1, Len(ds) - 1)) * 10 + DigitVal(ds[Len(ds)])

RECURSIVE Pow10(_)
Pow10(n) == IF n = 0 THEN 1 ELSE 10 * Pow10(n - 1)

\* float(s) on strings of digits, signs, points, blanks and characters no
\* float literal holds: optional blanks, optional sign, then digits with an
\* optional point (digits on at least one side of it), optional blanks.
\* Anything else raises ValueError.
float(s) ==
    LET t == strip(s)
        signed == t # << >> /\ t[1] \in {"+", "-"}
        body == IF signed THEN Tail(t) ELSE t
        points == {i \in 1..Len(body) : body[i] = "."}
        digits == RemoveChars(body, {"."})
        wellformed ==
            /\ Cardinality(points) <= 1
            /\ digits # << >>
            /\ \A i \in 1..Len(digits) : IsAsciiDigit(digits[i])
        fraction ==
            IF points = {} THEN 0
            ELSE Len(body) - (CHOOSE i \in points : TRUE)
        magnitude == ToNat(digits)
    IN  IF ~ wellformed THEN [raised |-> TRUE, value |-> Zero]
        ELSE [raised |-> FALSE,
              value |-> Float(IF signed /\ t[1] = "-" THEN 0 - magnitude
                              ELSE magnitude,
                              Pow10(fraction))]

\* validate_amount handing back 0.0 with every False.
validate_amount_zero_when_invalid(amount) ==
    IF ~ isinstance_str(amount) THEN <<FALSE, Zero>>
    ELSE LET parsed ==
                 float(RemoveChars(RemoveChars(amount.chars, {"$"}), {","}))
         IN  IF parsed.raised \/ ~ IsPositive(parsed.value)
             THEN <<FALSE, Zero>>
             ELSE <<TRUE, parsed.value>>

\* validate_amount: (parsed > 0, parsed), or (False, 0.0) when amount has no
\* replace method (AttributeError) or the parse raises ValueError
validate_amount(amount) ==
    IF ~ isinstance_str(amount) THEN <<FALSE, Zero>>
    ELSE LET parsed ==
                 float(RemoveChars(RemoveChars(amount.chars, {"$"}), {","}))
         IN  IF parsed.raised THEN <<FALSE, Zero>>
             ELSE <<IsPositive(parsed.value), parsed.value>>

-----------------------------------------------------------------------------
(* IntentType and IntentClassifier *)

IntentType ==
    {"greeting", "account_balance", "transaction_history", "transfer_money",
     "loan_info", "investment_advice", "support", "goodbye", "unknown"}

\* The keyword table with the support entry moved to the front.
intent_keywords_support_first ==
  <<
    << "support",
       << <<"h","e","l","p">>,
          <<"s","u","p","p","o","r","t">>,
          <<"c","u","s","t","o","m","e","r"," ","s","e","r","v","i","c","e">>,
          <<"p","r","o","b","l","e","m">> >> >>,
    << "greeting",
       << <<"h","e","l","l","o">>,
          <<"h","i">>,
          <<"h","e","y">>,
          <<"g","o","o","d"," ","m","o","r","n","i","n","g">>,
          <<"g","o","o","d"," ","a","f","t","e","r","n","o","o","n">> >> >>,
    << "account_balance",
       << <<"b","a","l","a","n","c","e">>,
          <<"a","c","c","o","u","n","t"," ","b","a","l","a","n","c","e">>,
          <<"h","o","w"," ","m","u","c","h">>,
          <<"f","u","n","d","s">> >> >>,
    << "transaction_history",
       << <<"t","r","a","n","s","a","c","t","i","o","n","s">>,
          <<"h","i","s","t","o","r","y">>,
          <<"s","t","a","t","e","m","e","n","t">>,
          <<"a","c","t","i","v","i","t","y">> >> >>,
    << "transfer_money",
       << <<"t","r","a","n","s","f","e","r">>,
          <<"s","e","n","d"," ","m","o","n","e","y">>,
          <<"p","a","y">>,
          <<"w","i","r","e">> >> >>,
    << "loan_info",
       << <<"l","o","a","n">>,
          <<"m","o","r","t","g","a","g","e">>,
          <<"c","r","e","d","i","t">>,
          <<"b","o","r","r","o","w">> >> >>,
    << "investment_advice",
       << <<"i","n","v","e","s","t">>,
          <<"p","o","r","t","f","o","l","i","o">>,
          <<"s","t","o","c","k","s">>,
          <<"b","o","n","d","s">>,
          <<"m","u","t","u","a","l"," ","f","u","n","d","s">> >> >>,
    << "goodbye",
       << <<"b","y","e">>,
          <<"g","o","o","d","b","y","e">>,
          <<"e","x","i","t">>,
          <<"q","u","i","t">>,
          <<"t","h","a","n","k"," ","y","o","u">> >> >>
  >>

\* IntentClassifier.intent_keywords: a dict, iterated in insertion order
intent_keywords ==
  <<
    << "greeting",
       << <<"h","e","l","l","o">>,
          <<"h","i">>,
          <<"h","e","y">>,
          <<"g","o","o","d"," ","m","o","r","n","i","n","g">>,
          <<"g","o","o","d"," ","a","f","t","e","r","n","o","o","n">> >> >>,
    << "account_balance",
       << <<"b","a","l","a","n","c","e">>,
          <<"a","c","c","o","u","n","t"," ","b","a","l","a","n","c","e">>,
          <<"h","o","w"," ","m","u","c","h">>,
          <<"f","u","n","d","s">> >> >>,
    << "transaction_history",
       << <<"t","r","a","n","s","a","c","t","i","o","n","s">>,
          <<"h","i","s","t","o","r","y">>,
          <<"s","t","a","t","e","m","e","n","t">>,
          <<"a","c","t","i","v","i","t","y">> >> >>,
    << "transfer_money",
       << <<"t","r","a","n","s","f","e","r">>,
          <<"s","e","n","d"," ","m","o","n","e","y">>,
          <<"p","a","y">>,
          <<"w","i","r","e">> >> >>,
    << "loan_info",
       << <<"l","o","a","n">>,
          <<"m","o","r","t","g","a","g","e">>,
          <<"c","r","e","d","i","t">>,
          <<"b","o","r","r","o","w">> >> >>,
    << "investment_advice",
       << <<"i","n","v","e","s","t">>,
          <<"p","o","r","t","f","o","l","i","o">>,
          <<"s","t","o","c","k","s">>,
          <<"b","o","n","d","s">>,
          <<"m","u","t","u","a","l"," ","f","u","n","d","s">> >> >>,
    << "support",
       << <<"h","e","l","p">>,
          <<"s","u","p","p","o","r","t">>,
          <<"c","u","s","t","o","m","e","r"," ","s","e","r","v","i","c","e">>,
          <<"p","r","o","b","l","e","m">> >> >>,
    << "goodbye",
       << <<"b","y","e">>,
          <<"g","o","o","d","b","y","e">>,
          <<"e","x","i","t">>,
          <<"q","u","i","t">>,
          <<"t","h","a","n","k"," ","y","o","u">> >> >>
  >>

RECURSIVE first_match(_, _)
\* the for loop of classify_intent over the entries from the i-th on
first_match(text, i) ==
    IF i > Len(intent_keywords) THEN "unknown"
    ELSE IF \E j \in 1..Len(intent_keywords[i][2]) :
                Contains(text, intent_keywords[i][2][j])
         THEN intent_keywords[i][1]
    ELSE first_match(text, i + 1)

classify_intent(user_input) ==
    LET user_input_lower == lower(user_input)
    IN  first_match(user_input_lower, 1)

-----------------------------------------------------------------------------
(* ResponseGenerator.  The replies are the texts of the source, the bullet  *)
(* character of the lists written as an asterisk.                          *)

\* ResponseGenerator.responses: the canned lists picked from at random
GreetingResponses ==
    <<"Hello! Welcome to SecureBank. How can I assist you today?",
      "Hi there! I'm here to help with your banking needs. What can I do for you?",
      "Good day! How may I help you with your financial services today?">>
GoodbyeResponses ==
    <<"Thank you for using SecureBank! Have a great day!",
      "Goodbye! Feel free to reach out anytime you need assistance.",
      "Take care! Remember, I'm here 24/7 for your banking needs.">>

\* random.choice over a three-element list: pick is the index drawn
RandomPicks == 1..Len(GreetingResponses)

get_random_response(intent, pick) ==
    IF intent = "greeting" THEN GreetingResponses[pick]
    ELSE GoodbyeResponses[pick]

request_authentication ==
    "For security purposes, I'll need to verify your identity first. Please provide your account number or contact customer service at 1-800-SECURE."

handle_balance_inquiry(session) ==
    "Your current account balance is $2,547.83. Is there anything else I can help you with?"

handle_transaction_history(session) ==
    "Here are your recent transactions:\n* Dec 15: Grocery Store - $85.42\n* Dec 14: Online Transfer - $200.00\n* Dec 13: ATM Withdrawal - $60.00\nWould you like more details about any specific transaction?"

handle_transfer_request(extracted_data) ==
    "I can help you with transfers. For security, please visit our secure online portal or mobile app to complete transfers. You can also call our customer service at 1-800-SECURE."

handle_loan_inquiry ==
    "We offer various loan products including:\n* Personal loans (5.99% - 15.99% APR)\n* Auto loans (3.49% - 7.99% APR)\n* Home mortgages (competitive rates)\nWould you like to speak with a loan specialist?"

handle_investment_inquiry ==
    "Investment advice should be personalized to your financial situation. I recommend speaking with one of our certified financial advisors. Would you like me to schedule a consultation for you?"

handle_support_request ==
    "I'm here to help! For complex issues, you can:\n* Call customer service: 1-800-SECURE\n* Visit our website: www.securebank.com/support\n* Chat with a specialist (Mon-Fri 8AM-8PM)\nWhat specific issue can I help you with?"

handle_unknown_intent ==
    "I'm not sure I understand. I can help you with:\n* Account balances and transactions\n* Loan information\n* General banking questions\n* Connecting you with customer support\nHow can I assist you today?"

Dict(items) == [type |-> "dict", items |-> items]
EmptyDict == Dict(<< >>)

\* the intents generate_response answers only for an authenticated session
AuthRequired == {"account_balance", "transaction_history", "transfer_money"}

\* The gate with the transfer intent left out of its list.
auth_gate_without_transfer(intent, session) ==
    /\ intent \in {"account_balance", "transaction_history"}
    /\ ~ session.authenticated

\* the condition of the authentication branch of generate_response
auth_gate(intent, session) ==
    intent \in AuthRequired /\ ~ session.authenticated

\* response_map.get(intent, default)(): the reply, and the handler that ran
dispatch(intent, session, extracted_data, pick) ==
    CASE intent = "greeting" ->
             [response |-> get_random_response("greeting", pick),
              handlers |-> <<"_get_random_response">>]
      [] intent = "account_balance" ->
             [response |-> handle_balance_inquiry(session),
              handlers |-> <<"_handle_balance_inquiry">>]
      [] intent = "transaction_history" ->
             [response |-> handle_transaction_history(session),
              handlers |-> <<"_handle_transaction_history">>]
      [] intent = "transfer_money" ->
             [response |-> handle_transfer_request(extracted_data),
              handlers |-> <<"_handle_transfer_request">>]
      [] intent = "loan_info" ->
             [response |-> handle_loan_inquiry,
              handlers |-> <<"_handle_loan_inquiry">>]
      [] intent = "investment_advice" ->
             [response |-> handle_investment_inquiry,
              handlers |-> <<"_handle_investment_inquiry">>]
      [] intent = "support" ->
             [response |-> handle_support_request,
              handlers |-> <<"_handle_support_request">>]
      [] intent = "goodbye" ->
             [response |-> get_random_response("goodbye", pick),
              handlers |-> <<"_get_random_response">>]
      [] OTHER ->
             [response |-> handle_unknown_intent,
              handlers |-> <<"_handle_unknown_intent">>]

generate_response(intent, session, extracted_data, pick) ==
    LET data == IF extracted_data = NoneValue THEN EmptyDict
                ELSE extracted_data
    IN  IF auth_gate(intent, session)
        THEN [response |-> request_authentication,
              handlers |-> <<"_request_authentication">>]
        ELSE dispatch(intent, session, data, pick)

-----------------------------------------------------------------------------
(* FintechChatbot._extract_entities *)

RECURSIVE comma_groups(_, _)
\* (?:,\d{3})* from position p on: the position after the last group taken
comma_groups(s, p) ==
    IF /\ p + 3 <= Len(s)
       /\ s[p] = ","
       /\ \A i \in (p + 1)..(p + 3) : IsReDigit(s[i])
    THEN comma_groups(s, p + 4)
    ELSE p

\* re.findall('\$?(\d{1,3}(?:,\d{3})*(?:\.\d{2})?)', s)[:1]: the group of the
\* leftmost match.  The leftmost match starts at the first digit, or at a $
\* right before it, and every quantifier takes all it can, since what follows
\* it is optional.
first_amount(s) ==
    LET digits == {i \in 1..Len(s) : IsReDigit(s[i])}
    IN  IF digits = {} THEN << >>
        ELSE LET d == CHOOSE i \in digits : \A j \in digits : i <= j
                 lead == CHOOSE n \in 1..3 :
                             /\ \A i \in d..(d + n - 1) :
                                    i <= Len(s) /\ IsReDigit(s[i])
                             /\ \/ n = 3
                                \/ d + n > Len(s)
                                \/ ~ IsReDigit(s[d + n])
                 p == comma_groups(s, d + lead)
                 q == IF /\ p + 2 <= Len(s)
                         /\ s[p] = "."
                         /\ IsReDigit(s[p + 1])
                         /\ IsReDigit(s[p + 2])
                      THEN p + 3 ELSE p
             IN  <<SubSeq(s, d, q - 1)>>

\* a match of \b\d{10,12}\b that starts at i and is k characters long
account_match(s, i, k) ==
    /\ i + k - 1 <= Len(s)
    /\ \A j \in i..(i + k - 1) : IsReDigit(s[j])
    /\ i = 1 \/ ~ IsReWord(s[i - 1])
    /\ i + k - 1 = Len(s) \/ ~ IsReWord(s[i + k])

\* re.findall('\b\d{10,12}\b', s)[:1]: the leftmost match, the longest there
first_account(s) ==
    LET lengths == MinAccountDigits..MaxAccountDigits
        starts == {i \in 1..Len(s) : \E k \in lengths : account_match(s, i, k)}
    IN  IF starts = {} THEN << >>
        ELSE LET i == CHOOSE a \in starts : \A b \in starts : a <= b
                 k == CHOOSE a \in lengths :
                          /\ account_match(s, i, a)
                          /\ \A b \in lengths : account_match(s, i, b) => b <= a
             IN  <<SubSeq(s, i, i + k - 1)>>

\* _extract_entities: a dict holding only the keys that matched
extract_entities(message) ==
    LET amounts == first_amount(message)
        accounts == first_account(message)
        keys == (IF amounts # << >> THEN {"amount"} ELSE {})
                \cup (IF accounts # << >> THEN {"account_number"} ELSE {})
    IN  Dict([k \in keys |-> IF k = "amount" THEN amounts[1] ELSE accounts[1]])
-----------------------------------------------------------------------------
(* The callers and the messages they send *)

Users == {"u1", "u2"}

HelloText == <<"H","e","l","l","o">>
GoodbyeText == <<"g","o","o","d","b","y","e">>
HelpBalanceText ==
    <<"h","e","l","p"," ","m","e"," ","c","h","e","c","k"," ","m","y"," ","b","a","l","a","n","c","e">>
SendText ==
    <<"s","e","n","d"," ","$","1",",","2","0","0",".","5","0"," ","t","o"," ","1","2","3","4","5","6","7","8","9","0">>
TaggedPayText ==
    <<"<","b",">","p","a","y"," ","$","5"," ","t","o"," ","1","2","3","4","5","6","7","8","9","0",";">>
UnknownText == <<"o","k","?">>
QuotesOnlyText == <<" ",";","'","\""," ","<",">"," ">>
BlankText == <<" ","\t"," ">>

\* the messages handed to process_message
Messages ==
    {Str(HelloText), Str(GoodbyeText), Str(HelpBalanceText),
     Str(TaggedPayText), Str(UnknownText), Str(QuotesOnlyText),
     Str(BlankText), Str(<< >>), NoneValue}

\* What the three text stages of the pipeline return on each message, worked
\* out once per message instead of once per call.
Sanitized == {<<m, sanitize_input(m)>> : m \in Messages}
Classified == {<<e[2], classify_intent(e[2])>> : e \in Sanitized}
Extracted == {<<e[2], extract_entities(e[2])>> : e \in Sanitized}

sanitize_input_of(message) ==
    (CHOOSE e \in Sanitized : e[1] = message)[2]
classify_intent_of(sanitized) ==
    (CHOOSE e \in Classified : e[1] = sanitized)[2]
extract_entities_of(sanitized) ==
    (CHOOSE e \in Extracted : e[1] = sanitized)[2]
-----------------------------------------------------------------------------
(* UserSession and the FintechChatbot orchestrator *)

NoIntent == "None"

\* A freshly constructed session that is already authenticated.
UserSession_authenticated(user_id, obj) ==
    [obj |-> obj, user_id |-> user_id, authenticated |-> TRUE,
     context |-> << >>, last_intent |-> NoIntent]

\* UserSession(user_id=user_id): the dataclass defaults, __post_init__ having
\* replaced the None context by {}; obj is the identity of the new object
UserSession(user_id, obj) ==
    [obj |-> obj, user_id |-> user_id, authenticated |-> FALSE,
     context |-> << >>, last_intent |-> NoIntent]

\* active_sessions[user_id] = session
Store(sessions, user_id, session) ==
    [u \in DOMAIN sessions \cup {user_id} |->
        IF u = user_id THEN session ELSE sessions[u]]

\* create_session: constructs a session and registers it under user_id,
\* whatever the store held there
create_session(sessions, next, user_id) ==
    LET session == UserSession(user_id, next)
    IN  [sessions |-> Store(sessions, user_id, session),
         next_obj |-> next + 1,
         session |-> session,
         log |-> <<"session_created">>]

\* get_session with the lookup dropped: always constructs.
get_session_always_creates(sessions, next, user_id) ==
    create_session(sessions, next, user_id)

\* get_session: active_sessions.get(user_id) or create_session(user_id); a
\* UserSession defines neither __bool__ nor __len__, so a stored one is truthy
get_session(sessions, next, user_id) ==
    IF user_id \in DOMAIN sessions
    THEN [sessions |-> sessions,
          next_obj |-> next,
          session |-> sessions[user_id],
          log |-> << >>]
    ELSE create_session(sessions, next, user_id)

\* end_session with the membership test dropped: del raises KeyError on a
\* user_id the store does not hold.
end_session_unguarded(sessions, user_id) ==
    [sessions |-> [u \in DOMAIN sessions \ {user_id} |-> sessions[u]],
     raised |-> user_id \notin DOMAIN sessions,
     log |-> IF user_id \in DOMAIN sessions THEN <<"session_ended">> ELSE << >>]

\* end_session: del active_sessions[user_id] if the store holds it
end_session(sessions, user_id) ==
    IF user_id \in DOMAIN sessions
    THEN [sessions |-> [u \in DOMAIN sessions \ {user_id} |-> sessions[u]],
          raised |-> FALSE,
          log |-> <<"session_ended">>]
    ELSE [sessions |-> sessions, raised |-> FALSE, log |-> << >>]

InvalidMessage == "I didn't receive a valid message. Please try again."
Apology ==
    "I apologize, but I encountered an error. Please try again or contact customer support at 1-800-SECURE if the issue persists."

\* The stage of process_message, if any, at which an exception is raised in a
\* call: the try block wraps all five (an unhashable user_id, for one, makes
\* the dict lookup of get_session raise TypeError).
Stages ==
    <<"get_session", "sanitize_input", "classify_intent", "_extract_entities",
      "generate_response">>
Faults == {"none"} \cup {Stages[i] : i \in 1..Len(Stages)}

\* what one run of the body of process_message leaves behind
Outcome(raised, response, sessions, next, steps, intent, entities, handlers) ==
    [raised |-> raised, response |-> response, sessions |-> sessions,
     next_obj |-> next, steps |-> steps, intent |-> intent,
     entities |-> entities, handlers |-> handlers]

\* session.last_intent = intent, on the session the store holds
set_last_intent(sessions, user_id, intent) ==
    [sessions EXCEPT ![user_id].last_intent = intent]

\* The tail of the try block with last_intent recorded after the generator
\* has replied.
classified_records_last(sessions, next, user_id, sanitized, fault, pick) ==
    LET intent == classify_intent_of(sanitized)
        upto == <<"get_session", "sanitize_input", "classify_intent">>
        session == sessions[user_id]
        entities == extract_entities_of(sanitized)
        reply == generate_response(intent, session, entities, pick)
    IN  IF fault = "_extract_entities"
        THEN Outcome(TRUE, "", sessions, next,
                     upto \o <<"_extract_entities", "raise">>,
                     intent, EmptyDict, << >>)
        ELSE IF fault = "generate_response"
        THEN Outcome(TRUE, "", sessions, next,
                     upto \o <<"_extract_entities", "generate_response", "raise">>,
                     intent, entities, << >>)
        ELSE Outcome(FALSE, reply.response,
                     set_last_intent(sessions, user_id, intent), next,
                     upto \o <<"_extract_entities", "generate_response",
                               "set_last_intent", "return">>,
                     intent, entities, reply.handlers)

\* the try block from the classification on (lines 322 to 335): classify,
\* record last_intent, extract, generate, return
classified(sessions, next, user_id, sanitized, fault, pick) ==
    LET intent == classify_intent_of(sanitized)
        recorded == set_last_intent(sessions, user_id, intent)
        upto == <<"get_session", "sanitize_input", "classify_intent",
                  "set_last_intent">>
        session == recorded[user_id]
        entities == extract_entities_of(sanitized)
        reply == generate_response(intent, session, entities, pick)
    IN  IF fault = "_extract_entities"
        THEN Outcome(TRUE, "", recorded, next,
                     upto \o <<"_extract_entities", "raise">>,
                     intent, EmptyDict, << >>)
        ELSE IF fault = "generate_response"
        THEN Outcome(TRUE, "", recorded, next,
                     upto \o <<"_extract_entities", "generate_response", "raise">>,
                     intent, entities, << >>)
        ELSE Outcome(FALSE, reply.response, recorded, next,
                     upto \o <<"_extract_entities", "generate_response", "return">>,
                     intent, entities, reply.handlers)

\* the try block of process_message
try_block(sessions, next, user_id, message, fault, pick) ==
    IF fault = "get_session"
    THEN Outcome(TRUE, "", sessions, next, <<"get_session", "raise">>,
                 NoIntent, EmptyDict, << >>)
    ELSE LET got == get_session(sessions, next, user_id)
             sanitized == sanitize_input_of(message)
         IN  IF fault = "sanitize_input"
             THEN Outcome(TRUE, "", got.sessions, got.next_obj,
                          <<"get_session", "sanitize_input", "raise">>,
                          NoIntent, EmptyDict, << >>)
             ELSE IF sanitized = << >>
             THEN Outcome(FALSE, InvalidMessage, got.sessions, got.next_obj,
                          <<"get_session", "sanitize_input", "return">>,
                          NoIntent, EmptyDict, << >>)
             ELSE IF fault = "classify_intent"
             THEN Outcome(TRUE, "", got.sessions, got.next_obj,
                          <<"get_session", "sanitize_input", "classify_intent",
                            "raise">>,
                          NoIntent, EmptyDict, << >>)
             ELSE classified(got.sessions, got.next_obj, user_id, sanitized,
                             fault, pick)

\* process_message with the except clause removed.
process_message_uncaught(sessions, next, user_id, message, fault, pick) ==
    try_block(sessions, next, user_id, message, fault, pick)

\* process_message: the try block, and  except Exception  turning whatever it
\* raised into the apology
process_message(sessions, next, user_id, message, fault, pick) ==
    LET tried == try_block(sessions, next, user_id, message, fault, pick)
    IN  IF tried.raised
        THEN [tried EXCEPT !.raised = FALSE,
                           !.response = Apology,
                           !.steps = @ \o <<"except", "return">>]
        ELSE tried
-----------------------------------------------------------------------------
(* Inputs *)

\* the pieces the classifier inputs are put together from
ClassifyFragments ==
    {<<"h","e","l","p">>,
     <<" ">>,
     <<"b","a","l","a","n","c","e">>,
     <<"a","l","o","n","e">>,
     <<"H","i">>,
     <<"x">>,
     <<"P","A","Y">>,
     <<"b","y","e">>,
     <<"i","n","v","e","s","t">>,
     <<"h","i","s","t","o","r","y">>,
     <<"m","u","t","u","a","l"," ">>,
     <<"f","u","n","d","s">>}

ClassifyInputs ==
    Concats(ClassifyFragments, MaxFragments) \cup {HelpBalanceText, SendText}

AmountAlphabet == {"$", ",", "-", ".", "0", "5", "x", " "}
ThousandText == <<"$","1",",","0","0","0",".","0","0">>
MinusFiveText == <<"-","5">>
AmountInputs ==
    {Str(s) : s \in Concats({<<c>> : c \in AmountAlphabet}, MaxAmountLen)
                    \cup {ThousandText, MinusFiveText,
                          <<"+","1",".","5","0">>,
                          <<"1",",","2","0","0",".","5","0">>}}
    \cup {NoneValue, IntValue}

\* a run of n ASCII digits: 1234567890123...
DigitRun(n) == [i \in 1..n |-> AsciiDigits[(i % 10) + 1]]
EdgeChars == {<<"\n">>, <<"a">>, <<" ">>, <<"U+0663">>}
AccountInputs ==
    {pre \o DigitRun(n) \o suf :
        pre \in Concats(EdgeChars, 1),
        n \in 0..MaxDigitRun,
        suf \in Concats(EdgeChars, 2)}

GenerateSessions ==
    {[UserSession("u1", 1) EXCEPT !.authenticated = a, !.last_intent = li] :
        a \in BOOLEAN, li \in {NoIntent, "greeting"}}
GenerateEntities ==
    {NoneValue} \cup
    {extract_entities(m) :
        m \in {HelloText, SendText, <<"p","a","y"," ","5","0">>}}
GenerateInputs ==
    [intent : IntentType \cup {"other"},
     session : GenerateSessions,
     extracted_data : GenerateEntities]

-----------------------------------------------------------------------------
(* The session store and the orchestrator, driven by a caller *)

NoCall == [none |-> TRUE]

Init ==
    /\ active_sessions = << >>
    /\ next_obj = 1
    /\ op = "none"
    /\ arg = NoCall
    /\ ret = NoCall

CreateSession(user_id) ==
    /\ next_obj <= MaxObjects
    /\ \E r \in {create_session(active_sessions, next_obj, user_id)} :
           /\ active_sessions' = r.sessions
           /\ next_obj' = r.next_obj
           /\ op' = "create_session"
           /\ arg' = [user_id |-> user_id]
           /\ ret' = [session |-> r.session, log |-> r.log]

GetSession(user_id) ==
    /\ user_id \in DOMAIN active_sessions \/ next_obj <= MaxObjects
    /\ \E r \in {get_session(active_sessions, next_obj, user_id)} :
           /\ active_sessions' = r.sessions
           /\ next_obj' = r.next_obj
           /\ op' = "get_session"
           /\ arg' = [user_id |-> user_id]
           /\ ret' = [session |-> r.session, log |-> r.log]

ProcessMessage(user_id, message, fault, pick) ==
    /\ user_id \in DOMAIN active_sessions \/ next_obj <= MaxObjects
    /\ \E r \in {process_message(active_sessions, next_obj, user_id, message,
                                  fault, pick)} :
           /\ active_sessions' = r.sessions
           /\ next_obj' = r.next_obj
           /\ op' = "process_message"
           /\ arg' = [user_id |-> user_id, message |-> message, fault |-> fault]
           /\ ret' = [raised |-> r.raised, response |-> r.response,
                      steps |-> r.steps, intent |-> r.intent,
                      entities |-> r.entities, handlers |-> r.handlers]

EndSession(user_id) ==
    \E r \in {end_session(active_sessions, user_id)} :
        /\ active_sessions' = r.sessions
        /\ next_obj' = next_obj
        /\ op' = "end_session"
        /\ arg' = [user_id |-> user_id]
        /\ ret' = [raised |-> r.raised, log |-> r.log]

Next ==
    \/ \E u \in Users : CreateSession(u)
    \/ \E u \in Users : GetSession(u)
    \/ \E u \in Users, m \in Messages, f \in Faults, p \in RandomPicks :
           ProcessMessage(u, m, f, p)
    \/ \E u \in Users : EndSession(u)

Spec == Init /\ [][Next]_vars

-----------------------------------------------------------------------------
(* The pure functions, each applied to one input of its bounded input set *)

Idle ==
    /\ active_sessions = << >>
    /\ next_obj = 1
    /\ op = "none"
    /\ ret = NoCall

Apply(name, result) ==
    /\ op = "none"
    /\ op' = name
    /\ ret' = result
    /\ UNCHANGED <<active_sessions, next_obj, arg>>

InitClassify == Idle /\ arg \in ClassifyInputs
ClassifyIntent == Apply("classify_intent", classify_intent(arg))
SpecClassify == InitClassify /\ [][ClassifyIntent]_vars

InitAmount == Idle /\ arg \in AmountInputs
ValidateAmount == Apply("validate_amount", validate_amount(arg))
SpecAmount == InitAmount /\ [][ValidateAmount]_vars

InitAccount == Idle /\ arg \in AccountInputs
ValidateAccountNumber ==
    Apply("validate_account_number", validate_account_number(arg))
SpecAccount == InitAccount /\ [][ValidateAccountNumber]_vars

InitGenerate == Idle /\ arg \in GenerateInputs
GenerateResponse ==
    \E pick \in RandomPicks :
        Apply("generate_response",
              generate_response(arg.intent, arg.session, arg.extracted_data,
                                pick))
SpecGenerate == InitGenerate /\ [][GenerateResponse]_vars

-----------------------------------------------------------------------------
(* Properties *)

Range(s) == {s[i] : i \in 1..Len(s)}
Position(s, x) == CHOOSE i \in 1..Len(s) : s[i] = x

\* every text process_message can hand back
Replies ==
    Range(GreetingResponses) \cup Range(GoodbyeResponses) \cup
    {request_authentication, handle_balance_inquiry(NoCall),
     handle_transaction_history(NoCall), handle_transfer_request(EmptyDict),
     handle_loan_inquiry, handle_investment_inquiry, handle_support_request,
     handle_unknown_intent, InvalidMessage, Apology}

\* C1: process_message always returns one of the bot's texts and never lets
\* an exception out: whenever a stage of the pipeline raised, the call still
\* returned, and what it returned is exactly the apology.
C1_NeverRaises ==
    op = "process_message" =>
        /\ ~ ret.raised
        /\ ret.response \in Replies
        /\ ret.steps[Len(ret.steps)] = "return"
        /\ "raise" \in Range(ret.steps) => ret.response = Apology

\* a call in which the generator raised and the caller got the apology
C1_Witness ==
    /\ op = "process_message"
    /\ arg.fault = "generate_response"
    /\ "raise" \in Range(ret.steps)
    /\ ret.response = Apology

\* C2: for an unauthenticated session and an intent among account_balance,
\* transaction_history and transfer_money, generate_response returns the
\* verification request whatever the entities are, and only
\* _request_authentication runs; in every other case the gate does not fire.
C2_AuthGate ==
    op = "generate_response" =>
        LET gated ==
                /\ arg.intent \in {"account_balance", "transaction_history",
                                   "transfer_money"}
                /\ arg.session.authenticated = FALSE
        IN  /\ gated => /\ ret.response = request_authentication
                        /\ ret.handlers = <<"_request_authentication">>
            /\ ~ gated => /\ ret.response # request_authentication
                          /\ "_request_authentication" \notin Range(ret.handlers)

\* a transfer asked for on an unauthenticated session, entities present
C2_Witness ==
    /\ op = "generate_response"
    /\ arg.intent = "transfer_money"
    /\ ~ arg.session.authenticated
    /\ arg.extracted_data.type = "dict"
    /\ "amount" \in DOMAIN arg.extracted_data.items
    /\ ret.response = request_authentication

\* a str made only of blacklisted characters and whitespace (or of nothing)
OnlyStrippedChars(chars) ==
    \A i \in 1..Len(chars) : chars[i] \in {"<", ">", "\"", "'", ";"} \cup Whitespace

InvalidInput(message) ==
    message.type # "str" \/ OnlyStrippedChars(message.chars)

\* C3: a call of process_message in which nothing raised and whose message is
\* no str, or is empty once sanitized, returns the invalid-message text after
\* the session fetch and the sanitizer alone, and changes the store only by
\* registering a default session for a user_id that had none.
C3_InvalidMessage ==
    [][(/\ op' = "process_message"
        /\ "raise" \notin Range(ret'.steps)
        /\ InvalidInput(arg'.message))
       => /\ ret'.response = InvalidMessage
          /\ ret'.steps = <<"get_session", "sanitize_input", "return">>
          /\ ret'.handlers = << >>
          /\ active_sessions' =
                 IF arg'.user_id \in DOMAIN active_sessions
                 THEN active_sessions
                 ELSE [u \in DOMAIN active_sessions \cup {arg'.user_id} |->
                          IF u = arg'.user_id
                          THEN [obj |-> next_obj, user_id |-> u,
                                authenticated |-> FALSE, context |-> << >>,
                                last_intent |-> NoIntent]
                          ELSE active_sessions[u]]]_vars

\* a message of quotes and blanks answered as invalid, the session keeping
\* the intent an earlier message left
C3_Witness ==
    /\ op = "process_message"
    /\ arg.message.type = "str"
    /\ arg.message.chars # << >>
    /\ OnlyStrippedChars(arg.message.chars)
    /\ ret.response = InvalidMessage
    /\ active_sessions[arg.user_id].last_intent # NoIntent

\* what every step keeps of the sessions, whoever the caller is: a session
\* stays the same object with its flag and context, its last_intent changes
\* only in a process_message for its user, and it goes only by end_session
KeepsSessions(u) ==
    /\ (u \in DOMAIN active_sessions /\ u \in DOMAIN active_sessions') =>
           /\ active_sessions'[u].obj = active_sessions[u].obj
           /\ active_sessions'[u].authenticated = active_sessions[u].authenticated
           /\ active_sessions'[u].context = active_sessions[u].context
           /\ \/ active_sessions'[u].last_intent = active_sessions[u].last_intent
              \/ op' = "process_message" /\ arg'.user_id = u
    /\ (u \in DOMAIN active_sessions /\ u \notin DOMAIN active_sessions') =>
           op' = "end_session" /\ arg'.user_id = u

\* a step constructs a session only for a user_id the store holds none for
ConstructsOnlyWhenAbsent ==
    next_obj' # next_obj => arg'.user_id \notin DOMAIN active_sessions

\* a call that returns a session returns the one the store holds
ReturnsStored ==
    op' \in {"create_session", "get_session"} =>
        ret'.session = active_sessions'[arg'.user_id]

\* C4 as stated: in every step of every operation, create_session included, a
\* session is constructed only for a user_id without one, a stored session
\* stays the same object with its state, and it leaves only by end_session.
C4_Original ==
    [][/\ ConstructsOnlyWhenAbsent
       /\ ReturnsStored
       /\ \A u \in Users : KeepsSessions(u)]_vars

\* C4 amended: the same of every step but an explicit create_session, which
\* always constructs a default session and registers it in place of whatever
\* the store held for that user_id.
C4_SessionLifecycle ==
    [][/\ ReturnsStored
       /\ op' # "create_session" =>
              /\ ConstructsOnlyWhenAbsent
              /\ \A u \in Users : KeepsSessions(u)
       /\ op' = "create_session" =>
              /\ next_obj' = next_obj + 1
              /\ active_sessions'[arg'.user_id] =
                     [obj |-> next_obj, user_id |-> arg'.user_id,
                      authenticated |-> FALSE, context |-> << >>,
                      last_intent |-> NoIntent]
              /\ \A u \in Users \ {arg'.user_id} : KeepsSessions(u)]_vars

\* get_session handing back, without constructing, a session that holds the
\* intent of an earlier message
C4_Witness ==
    /\ op = "get_session"
    /\ ret.log = << >>
    /\ ret.session = active_sessions[arg.user_id]
    /\ ret.session.last_intent # NoIntent

\* C5: end_session never raises and leaves user_id out of the store; on every
\* reachable store, for every user_id, a second end_session changes nothing
\* the first did not, the other users' sessions stay, and on a user_id the
\* store does not hold the store stays as it is.
C5_EndSessionIdempotent ==
    /\ op = "end_session" =>
           ~ ret.raised /\ arg.user_id \notin DOMAIN active_sessions
    /\ \A u \in Users :
           LET once == end_session(active_sessions, u)
               twice == end_session(once.sessions, u)
           IN  /\ ~ once.raised /\ ~ twice.raised
               /\ twice.sessions = once.sessions
               /\ DOMAIN once.sessions = DOMAIN active_sessions \ {u}
               /\ \A v \in DOMAIN once.sessions :
                      once.sessions[v] = active_sessions[v]
               /\ u \notin DOMAIN active_sessions =>
                      once.sessions = active_sessions

\* end_session on a user_id the store does not hold (as after a first call),
\* another user's session being there
C5_Witness ==
    /\ op = "end_session"
    /\ ret.log = << >>
    /\ DOMAIN active_sessions # {}

\* the order the intents are declared in
DeclaredOrder ==
    <<"greeting", "account_balance", "transaction_history", "transfer_money",
      "loan_info", "investment_advice", "support", "goodbye">>

KeywordsOf(intent) ==
    LET entry == CHOOSE e \in Range(intent_keywords) : e[1] = intent
    IN  Range(entry[2])

\* C6: classify_intent returns the first intent of the declared order one of
\* whose keywords occurs in the lower-cased text, and unknown exactly when no
\* keyword of any intent occurs; "help me check my balance" is account_balance.
C6_FirstDeclaredMatch ==
    op = "classify_intent" =>
        LET text == lower(arg)
            matching == {i \in 1..Len(DeclaredOrder) :
                            \E k \in KeywordsOf(DeclaredOrder[i]) :
                                Contains(text, k)}
        IN  /\ ret \in IntentType
            /\ ret = "unknown" <=> matching = {}
            /\ matching # {} =>
                   ret = DeclaredOrder[CHOOSE i \in matching :
                                           \A j \in matching : i <= j]
            /\ arg = HelpBalanceText => ret = "account_balance"

\* the text with a support keyword and a balance keyword, classified
C6_Witness ==
    /\ op = "classify_intent"
    /\ arg = HelpBalanceText
    /\ ret = "account_balance"

Bare(amount) == RemoveChars(amount.chars, {"$", ","})

StagesRun(steps) ==
    SelectSeq(steps, LAMBDA s : s \notin {"raise", "except", "return"})

IsPrefix(s, t) == Len(s) <= Len(t) /\ SubSeq(t, 1, Len(s)) = s

\* C9 as stated: the stages run in the order session, sanitize, classify,
\* extract, generate, and last_intent is recorded after the generator.
C9_Original ==
    op = "process_message" =>
        IsPrefix(StagesRun(ret.steps),
                 <<"get_session", "sanitize_input", "classify_intent",
                   "_extract_entities", "generate_response",
                   "set_last_intent">>)

\* C9 amended: the stages run in the order session, sanitize, classify, record
\* last_intent, extract, generate; last_intent is recorded right after the
\* classification, so the session holds the classified intent also when the
\* extraction or the generation raised afterwards.
C9_StageOrder ==
    op = "process_message" =>
        /\ IsPrefix(StagesRun(ret.steps),
                    <<"get_session", "sanitize_input", "classify_intent",
                      "set_last_intent", "_extract_entities",
                      "generate_response">>)
        /\ "generate_response" \in Range(ret.steps) =>
               Position(ret.steps, "set_last_intent")
                   < Position(ret.steps, "generate_response")
        /\ "set_last_intent" \in Range(ret.steps) =>
               /\ ret.intent # NoIntent
               /\ active_sessions[arg.user_id].last_intent = ret.intent

\* the generator raised, and the session already holds the classified intent
C9_Witness ==
    /\ op = "process_message"
    /\ arg.fault = "generate_response"
    /\ ret.response = Apology
    /\ ret.intent = "goodbye"
    /\ active_sessions[arg.user_id].last_intent = "goodbye"

\* C10: no stored session is authenticated, none handed out by create_session
\* or get_session is, and process_message never returns the balance, the
\* transaction history or the transfer reply.
C10_NeverAuthenticated ==
    /\ \A u \in DOMAIN active_sessions : ~ active_sessions[u].authenticated
    /\ op \in {"create_session", "get_session"} => ~ ret.session.authenticated
    /\ op = "process_message" =>
           ret.response \notin {handle_balance_inquiry(NoCall),
                                handle_transaction_history(NoCall),
                                handle_transfer_request(EmptyDict)}

\* a balance question answered with the verification request
C10_Witness ==
    /\ op = "process_message"
    /\ ret.intent = "account_balance"
    /\ ret.response = request_authentication
=============================================================================
